---------------------------- MODULE Spec2Model ----------------------------
(***************************************************************************)
(* Model of the lint rule react_refresh/only_export_components             *)
(* (crates/oxc_linter/src/rules/react_refresh/only_export_components.rs).  *)
(*                                                                         *)
(* A source file is a short sequence of top-level declarations.  The      *)
(* module record the rule reads is derived from it the way the semantic    *)
(* builder derives it: one star export entry per `export * from`, and one  *)
(* requested-module entry per import / re-export, filed under the request  *)
(* string.  OnlyExportComponents::run_once is then run step by step: the   *)
(* two gates, the loop over the star export entries, the inner loop over   *)
(* the requested-module entries of the star export's request string.      *)
(*                                                                         *)
(* The same steps are run by several workers at once, one file each        *)
(* (SpecWorkers).                                                          *)
(*                                                                         *)
(* The two name patterns of the rule are run as automata over the          *)
(* characters of a name (SpecNames), and unicorn/no_useless_undefined is   *)
(* run over the nodes of a syntax tree in traversal order (SpecUndefined). *)
(***************************************************************************)
EXTENDS Naturals, Sequences, FiniteSets

\* Largest number of top-level declarations of a modelled source file.
MaxDecls == 2

----------------------------------------------------------------------------
(* The name patterns POSSIBLE_REACT_EXPORT_RE and STRICT_REACT_EXPORT_RE    *)

\* Largest length of a scanned name, the sample names apart.
MaxNameLen == 3

UpperLetters ==
  {"A", "B", "C", "D", "E", "F", "G", "H", "I", "J", "K", "L", "M",
   "N", "O", "P", "Q", "R", "S", "T", "U", "V", "W", "X", "Y", "Z"}
LowerLetters ==
  {"a", "b", "c", "d", "e", "f", "g", "h", "i", "j", "k", "l", "m",
   "n", "o", "p", "q", "r", "s", "t", "u", "v", "w", "x", "y", "z"}
Digits == {"0", "1", "2", "3", "4", "5", "6", "7", "8", "9"}
\* [a-zA-Z0-9]
AlphaNumeric == UpperLetters \cup LowerLetters \cup Digits

\* The characters the scanned names are drawn from.
NameChars == {"C", "Z", "o", "z", "2", "_", "$"}

SampleNames ==
  {<<"C", "M", "S">>, <<"F", "o", "o", "2">>, <<"f", "o", "o">>,
   <<"A", "P", "I", "_", "U", "R", "L">>}

Names == UNION {[1..n -> NameChars] : n \in 0..MaxNameLen} \cup SampleNames

\* ^[A-Z][a-zA-Z0-9]*$ : "start" before the first character, "rest" after
\* [A-Z] and through [a-zA-Z0-9]*.  A lax variant lets `_` through as \w would.
PossibleStepWord(states, c) ==
  {q \in {"rest"} :
     \/ "start" \in states /\ c \in UpperLetters
     \/ "rest" \in states /\ c \in AlphaNumeric \cup {"_"}}

PossibleStep(states, c) ==
  {q \in {"rest"} :
     \/ "start" \in states /\ c \in UpperLetters
     \/ "rest" \in states /\ c \in AlphaNumeric}

PossibleAccepts(states) == "rest" \in states

\* ^[A-Z][a-zA-Z0-9]*[a-z]+[a-zA-Z0-9]*$ : "head" after [A-Z] and through the
\* first [a-zA-Z0-9]*, "lower" through [a-z]+, "tail" through the last
\* [a-zA-Z0-9]*.  A lax variant reads [a-z]* for [a-z]+.
StrictStepLowerOptional(states, c) ==
  {q \in {"head", "lower", "tail"} :
     \/ q = "head" /\ \/ "start" \in states /\ c \in UpperLetters
                      \/ "head" \in states /\ c \in AlphaNumeric
     \/ q = "lower" /\ \/ "start" \in states /\ c \in UpperLetters
                       \/ states \cap {"head", "lower"} # {} /\ c \in LowerLetters
     \/ q = "tail" /\ states \cap {"lower", "tail"} # {} /\ c \in AlphaNumeric}

StrictStep(states, c) ==
  {q \in {"head", "lower", "tail"} :
     \/ q = "head" /\ \/ "start" \in states /\ c \in UpperLetters
                      \/ "head" \in states /\ c \in AlphaNumeric
     \/ q = "lower" /\ states \cap {"head", "lower"} # {} /\ c \in LowerLetters
     \/ q = "tail" /\ states \cap {"lower", "tail"} # {} /\ c \in AlphaNumeric}

StrictAccepts(states) == states \cap {"lower", "tail"} # {}

RECURSIVE PossibleRun(_, _)
PossibleRun(states, text) ==
  IF text = <<>> THEN states ELSE PossibleRun(PossibleStep(states, Head(text)), Tail(text))

RECURSIVE StrictRun(_, _)
StrictRun(states, text) ==
  IF text = <<>> THEN states ELSE StrictRun(StrictStep(states, Head(text)), Tail(text))

\* POSSIBLE_REACT_EXPORT_RE.is_match(text), STRICT_REACT_EXPORT_RE.is_match(text)
POSSIBLE_REACT_EXPORT_RE(text) == PossibleAccepts(PossibleRun({"start"}, text))
STRICT_REACT_EXPORT_RE(text) == StrictAccepts(StrictRun({"start"}, text))

----------------------------------------------------------------------------
(* Source files                                                            *)

NoRequest == "<none>"
NoName == "<none>"
NoInit == "<none>"
NoExtension == "<none>"

Decl(kind, source, isType, resolution, name, init) ==
  [kind |-> kind, source |-> source, is_type |-> isType,
   resolution |-> resolution, name |-> name, init |-> init]

\* export * from 'r'  /  export type * from 'r'
StarExport(r, isType) ==
  Decl("ExportAllDeclaration", r, isType, "resolved", NoName, NoInit)
\* export * whose entry reached the record without a module request
StarExportNoRequest ==
  Decl("ExportAllDeclaration", NoRequest, FALSE, "no_module_request", NoName, NoInit)
\* export * from 'r' for which the record holds no requested-module entry
StarExportNoEntry(r) ==
  Decl("ExportAllDeclaration", r, FALSE, "no_requested_module", NoName, NoInit)
\* import x from 'r'
Import(r) ==
  Decl("ImportDeclaration", r, FALSE, "resolved", NoName, NoInit)
\* export { x } from 'r'
ReExport(r) ==
  Decl("ExportNamedFrom", r, FALSE, "resolved", NoName, NoInit)
\* export const name = <init>   /   export enum name { .. }
NamedExport(name, init) ==
  Decl("ExportNamedDeclaration", NoRequest, FALSE, "resolved", name, init)
\* export default () => {}
AnonymousDefault ==
  Decl("ExportDefaultDeclaration", NoRequest, FALSE, "resolved", NoName, "ArrowFunctionExpression")
\* const foo = 4   (no import / export syntax)
LocalConst ==
  Decl("VariableDeclaration", NoRequest, FALSE, "resolved", "foo", "NumericLiteral")

\* export { local as default }
ExportSpecifier(local) ==
  Decl("ExportSpecifier", NoRequest, FALSE, "resolved", local, NoInit)
\* const name = () => ..   (a binding that is not exported where it is declared)
LocalBinding(name, init) ==
  Decl("VariableDeclaration", NoRequest, FALSE, "resolved", name, init)

\* The characters of the names the files use.
Spelling(n) ==
  CASE n = "Bar" -> <<"B", "a", "r">>
    [] n = "Foo2" -> <<"F", "o", "o", "2">>
    [] n = "CMS" -> <<"C", "M", "S">>
    [] n = "SVG" -> <<"S", "V", "G">>
    [] n = "Tab" -> <<"T", "a", "b">>
    [] n = "App" -> <<"A", "p", "p">>
    [] n = "CONSTANT" -> <<"C", "O", "N", "S", "T", "A", "N", "T">>
    [] n = "loader" -> <<"l", "o", "a", "d", "e", "r">>
    [] n = "foo" -> <<"f", "o", "o">>
    [] n = "setState" -> <<"s", "e", "t", "S", "t", "a", "t", "e">>
    [] n = "settle" -> <<"s", "e", "t", "t", "l", "e">>
    [] OTHER -> <<>>

ConstantInits == {"StringLiteral", "TemplateLiteral", "BinaryExpression"}

StarDecls ==
  {StarExport("a", FALSE), StarExport("a", TRUE), StarExport("b", FALSE),
   StarExportNoRequest, StarExportNoEntry("a")}

ExportDecls ==
  {NamedExport("Bar", "ArrowFunctionExpression"),
   NamedExport("Foo2", "ArrowFunctionExpression"),
   NamedExport("CMS", "ArrowFunctionExpression"),
   ExportSpecifier("App"),
   NamedExport("loader", "ArrowFunctionExpression"),
   NamedExport("Tab", "TSEnumDeclaration"),
   NamedExport("SVG", "CallExpression:forwardRef(ArrowFunctionExpression)"),
   AnonymousDefault}
  \cup {NamedExport("CONSTANT", init) : init \in ConstantInits}

Decls ==
  StarDecls \cup {Import("a"), ReExport("a")} \cup ExportDecls
  \cup {LocalConst, LocalBinding("App", "ArrowFunctionExpression")}

Files == UNION {[1..n -> Decls] : n \in 0..MaxDecls}

Extensions == {"tsx", "jsx", "ts", NoExtension}

Rules == [allow_constant_export : BOOLEAN, allow_export_names : {{}, {"loader"}}]

\* The exports the rule is meant to accept as components: an arrow function
\* under a PascalCase name, and a forwardRef(..) call wrapping a function.
IsHocExport(d) ==
  d.kind = "ExportNamedDeclaration"
  /\ d.init = "CallExpression:forwardRef(ArrowFunctionExpression)"

\* An exported arrow function: a callable, for which the loose pattern decides.
IsCallableExport(d) ==
  d.kind = "ExportNamedDeclaration" /\ d.init = "ArrowFunctionExpression"

IsComponentExport(d) ==
  /\ IsCallableExport(d) \/ IsHocExport(d)
  /\ POSSIBLE_REACT_EXPORT_RE(Spelling(d.name))

IsConstantExport(d) ==
  d.kind = "ExportNamedDeclaration" /\ d.init \in ConstantInits

IsEnumExport(d) ==
  d.kind = "ExportNamedDeclaration" /\ d.init = "TSEnumDeclaration"

IsExport(d) ==
  d.kind \in {"ExportAllDeclaration", "ExportNamedFrom", "ExportNamedDeclaration",
              "ExportDefaultDeclaration", "ExportSpecifier"}

\* The class the rule is meant to give a named or default export under the
\* options r: exempted by the allow-list or as a constant, else a component
\* or not by its shape and name.
Classification(d, r) ==
  IF d.name \in r.allow_export_names THEN "Exempted"
  ELSE IF r.allow_constant_export /\ IsConstantExport(d) THEN "Exempted"
  ELSE IF IsComponentExport(d) THEN "Component"
  ELSE "NonComponent"

----------------------------------------------------------------------------
(* The module record of a file                                             *)

IsStar(d) == d.kind = "ExportAllDeclaration"

IsModuleSyntax(d) == d.kind # "VariableDeclaration"

\* The declarations that add an entry to requested_modules.
RequestsModule(d) ==
  /\ d.kind \in {"ExportAllDeclaration", "ImportDeclaration", "ExportNamedFrom"}
  /\ d.resolution = "resolved"

\* The places of a file that are in a set, in source order.
Positions(f, places) ==
  SelectSeq([k \in 1..Len(f) |-> k], LAMBDA k : k \in places)

StarExportEntries(f) ==
  LET at == Positions(f, {k \in 1..Len(f) : IsStar(f[k])})
  IN  [n \in 1..Len(at) |->
         [module_request |-> IF f[at[n]].resolution = "no_module_request"
                             THEN NoRequest ELSE f[at[n]].source,
          span |-> at[n]]]

RequestedModules(f) ==
  LET names == {f[k].source : k \in {k \in 1..Len(f) : RequestsModule(f[k])}}
  IN  [r \in names |->
         LET at == Positions(f, {k \in 1..Len(f) : RequestsModule(f[k]) /\ f[k].source = r})
         IN  [n \in 1..Len(at) |->
                [is_import |-> f[at[n]].kind = "ImportDeclaration",
                 is_type |-> f[at[n]].is_type,
                 span |-> at[n]]]]

ModuleRecord(f, ext) ==
  [not_esm |-> \A k \in 1..Len(f) : ~IsModuleSyntax(f[k]),
   extension |-> ext,
   star_export_entries |-> StarExportEntries(f),
   requested_modules |-> RequestedModules(f)]

----------------------------------------------------------------------------
(* State                                                                   *)

VARIABLES file, rule, module_record, pc, star_index, requested_index,
          diagnostics, stdout,
          run, previous,
          name, scan_index, possible_states, strict_states,
          ast, options, node_index,
          workers, contexts

input == <<file, rule, module_record>>
\* The run of the rule on the same file that came before.
runs == <<run, previous>>
\* The scan of a name by the two patterns.
name_vars == <<name, scan_index, possible_states, strict_states>>
\* The traversal of no_useless_undefined.
undefined_vars == <<ast, options, node_index>>
\* The runs of the rule on several files at once.
worker_vars == <<workers, contexts>>
elsewhere == <<name_vars, undefined_vars, worker_vars>>
vars == <<file, rule, module_record, pc, star_index, requested_index,
          diagnostics, stdout, runs, name_vars, undefined_vars, worker_vars>>

\* NoUselessUndefined::default()
DefaultOptions == [check_arguments |-> TRUE, check_arrow_function_body |-> TRUE]

InitFile ==
  /\ file \in Files
  /\ rule \in Rules
  /\ \E ext \in Extensions : module_record = ModuleRecord(file, ext)
  /\ pc = "run_once"
  /\ star_index = 0
  /\ requested_index = 0
  /\ diagnostics = <<>>
  /\ stdout = <<>>
  /\ run = 1
  /\ previous = <<>>

InitNoName ==
  /\ name = <<>>
  /\ scan_index = 0
  /\ possible_states = {}
  /\ strict_states = {}

InitNoAst ==
  /\ ast = <<>>
  /\ options = DefaultOptions
  /\ node_index = 0

InitNoWorkers ==
  /\ workers = <<>>
  /\ contexts = <<>>

Init == InitFile /\ InitNoName /\ InitNoAst /\ InitNoWorkers

----------------------------------------------------------------------------
(* OnlyExportComponents::run_once                                          *)

\* report_export_all: the one diagnostic the rule builds.
report_export_all(span0) ==
  [kind |-> "StarExportUnverifiable", severity |-> "warning", span |-> span0]

\* `ext != "tsx" && ext != "jsx"` returns, and so does a path with no extension.
IsComponentExtensionNoneAccepted(ext) == ext \in {"tsx", "jsx", NoExtension}

IsComponentExtension(ext) == ext \in {"tsx", "jsx"}

\* `!requested_module.is_import && !requested_module.is_type`
ShouldReport(requested_module) ==
  ~requested_module.is_import /\ ~requested_module.is_type

\* What run_once does with the named and default exports of the file once the
\* star exports are done: nothing, the classification of the exports is
\* disabled and the rule holds no option.  Two ways of classifying wrongly:
\* reporting every export that is not a component, allow-listed or not; and
\* reporting every export initialised by a call, wrapper or not.
mixed_exports(span0) ==
  [kind |-> "MixedExports", severity |-> "warning", span |-> span0]

ExportDiagnosticsNoAllowList(f, r) ==
  LET at == Positions(f, {k \in 1..Len(f) : /\ f[k].kind = "ExportNamedDeclaration"
                                               /\ ~IsComponentExport(f[k])})
  IN  [n \in 1..Len(at) |-> mixed_exports(at[n])]

ExportDiagnosticsNoHocUnwrap(f, r) ==
  LET at == Positions(f, {k \in 1..Len(f) : /\ f[k].kind = "ExportNamedDeclaration"
                                               /\ f[k].name \notin r.allow_export_names
                                               /\ (~IsComponentExport(f[k]) \/ IsHocExport(f[k]))})
  IN  [n \in 1..Len(at) |-> mixed_exports(at[n])]

\* Two more: the test of the name taken the wrong way round, so that the
\* callables with a component name are the ones reported; and the exports
\* classified while the bindings are still being collected, so that an export
\* naming a binding declared further down is reported.
ExportDiagnosticsInverted(f, r) ==
  LET at == Positions(f, {k \in 1..Len(f) : /\ IsCallableExport(f[k])
                                               /\ POSSIBLE_REACT_EXPORT_RE(Spelling(f[k].name))})
  IN  [n \in 1..Len(at) |-> mixed_exports(at[n])]

ExportDiagnosticsSinglePass(f, r) ==
  LET at == Positions(f, {k \in 1..Len(f) :
                            /\ f[k].kind = "ExportSpecifier"
                            /\ ~\E j \in 1..(k - 1) : /\ f[j].kind = "VariableDeclaration"
                                                       /\ f[j].name = f[k].name})
  IN  [n \in 1..Len(at) |-> mixed_exports(at[n])]

\* And one more: the report of anonymous default exports left enabled.
ExportDiagnosticsAnonymous(f, r) ==
  LET at == Positions(f, {k \in 1..Len(f) : f[k].kind = "ExportDefaultDeclaration"})
  IN  [n \in 1..Len(at) |-> mixed_exports(at[n])]

ExportDiagnostics(f, r) == <<>>

StarExports == module_record.star_export_entries

\* if module_record.not_esm { return; }
GateNotEsm ==
  /\ pc = "run_once"
  /\ module_record.not_esm
  /\ pc' = "done"
  /\ UNCHANGED <<input, runs, elsewhere, star_index, requested_index, diagnostics, stdout>>

GateEsm ==
  /\ pc = "run_once"
  /\ ~module_record.not_esm
  /\ pc' = "extension"
  /\ UNCHANGED <<input, runs, elsewhere, star_index, requested_index, diagnostics, stdout>>

\* match module_record.resolved_absolute_path.extension() { .. return .. }
GateExtensionReject ==
  /\ pc = "extension"
  /\ ~IsComponentExtension(module_record.extension)
  /\ pc' = "done"
  /\ UNCHANGED <<input, runs, elsewhere, star_index, requested_index, diagnostics, stdout>>

GateExtensionAccept ==
  /\ pc = "extension"
  /\ IsComponentExtension(module_record.extension)
  /\ pc' = "star_exports"
  /\ star_index' = 1
  /\ UNCHANGED <<input, runs, elsewhere, requested_index, diagnostics, stdout>>

\* let Some(module_request) = &star_export.module_request else { continue; };
StarNoModuleRequest ==
  /\ pc = "star_exports"
  /\ star_index <= Len(StarExports)
  /\ StarExports[star_index].module_request = NoRequest
  /\ star_index' = star_index + 1
  /\ UNCHANGED <<input, runs, elsewhere, pc, requested_index, diagnostics, stdout>>

\* module_record.requested_modules.get(module_request.name()) is None
StarRequestedModulesMissing ==
  /\ pc = "star_exports"
  /\ star_index <= Len(StarExports)
  /\ StarExports[star_index].module_request # NoRequest
  /\ StarExports[star_index].module_request \notin DOMAIN module_record.requested_modules
  /\ star_index' = star_index + 1
  /\ UNCHANGED <<input, runs, elsewhere, pc, requested_index, diagnostics, stdout>>

\* if let Some(requested_modules) = requested_modules { for requested_module in .. }
StarRequestedModulesFound ==
  /\ pc = "star_exports"
  /\ star_index <= Len(StarExports)
  /\ StarExports[star_index].module_request \in DOMAIN module_record.requested_modules
  /\ pc' = "requested_modules"
  /\ requested_index' = 1
  /\ UNCHANGED <<input, runs, elsewhere, star_index, diagnostics, stdout>>

CurrentRequested ==
  module_record.requested_modules[StarExports[star_index].module_request]

\* println!("should fail"); ctx.diagnostic(report_export_all(star_export.span));
RequestedReport ==
  /\ pc = "requested_modules"
  /\ requested_index <= Len(CurrentRequested)
  /\ ShouldReport(CurrentRequested[requested_index])
  /\ stdout' = Append(stdout, "should fail")
  /\ diagnostics' = Append(diagnostics, report_export_all(StarExports[star_index].span))
  /\ requested_index' = requested_index + 1
  /\ UNCHANGED <<input, runs, elsewhere, pc, star_index>>

RequestedSkip ==
  /\ pc = "requested_modules"
  /\ requested_index <= Len(CurrentRequested)
  /\ ~ShouldReport(CurrentRequested[requested_index])
  /\ requested_index' = requested_index + 1
  /\ UNCHANGED <<input, runs, elsewhere, pc, star_index, diagnostics, stdout>>

RequestedEnd ==
  /\ pc = "requested_modules"
  /\ requested_index > Len(CurrentRequested)
  /\ pc' = "star_exports"
  /\ star_index' = star_index + 1
  /\ requested_index' = 0
  /\ UNCHANGED <<input, runs, elsewhere, diagnostics, stdout>>

\* The loop is over; the rest of run_once reports nothing and returns.
StarExportsEnd ==
  /\ pc = "star_exports"
  /\ star_index > Len(StarExports)
  /\ diagnostics' = diagnostics \o ExportDiagnostics(file, rule)
  /\ pc' = "done"
  /\ UNCHANGED <<input, runs, elsewhere, star_index, requested_index, stdout>>

\* Each call of run_once is handed a LintContext of its own and reports into
\* it; the rule value and the lazily initialised statics hold nothing a run
\* writes.  Were the reports kept in a static, a call would start from those
\* of the call before.
SharedContext(emitted) == emitted

FreshContext(emitted) == <<>>

\* The rule is run once more on the same module record.
RunAgain ==
  /\ pc = "done"
  /\ run = 1
  /\ run' = 2
  /\ previous' = diagnostics
  /\ diagnostics' = FreshContext(diagnostics)
  /\ pc' = "run_once"
  /\ star_index' = 0
  /\ requested_index' = 0
  /\ UNCHANGED <<input, elsewhere, stdout>>

Next ==
  \/ RunAgain
  \/ GateNotEsm
  \/ GateEsm
  \/ GateExtensionReject
  \/ GateExtensionAccept
  \/ StarNoModuleRequest
  \/ StarRequestedModulesMissing
  \/ StarRequestedModulesFound
  \/ RequestedReport
  \/ RequestedSkip
  \/ RequestedEnd
  \/ StarExportsEnd

Spec == Init /\ [][Next]_vars

----------------------------------------------------------------------------
(* The star-export part of run_once as a function of the module record     *)

RECURSIVE RequestedDiagnostics(_, _)
RequestedDiagnostics(requested, span0) ==
  IF requested = <<>> THEN <<>>
  ELSE (IF ShouldReport(Head(requested)) THEN <<report_export_all(span0)>> ELSE <<>>)
       \o RequestedDiagnostics(Tail(requested), span0)

RECURSIVE StarDiagnostics(_, _)
StarDiagnostics(entries, requested_modules) ==
  IF entries = <<>> THEN <<>>
  ELSE LET star_export == Head(entries)
           here == IF star_export.module_request = NoRequest THEN <<>>
                   ELSE IF star_export.module_request \notin DOMAIN requested_modules THEN <<>>
                   ELSE RequestedDiagnostics(requested_modules[star_export.module_request],
                                             star_export.span)
       IN  here \o StarDiagnostics(Tail(entries), requested_modules)

RunOnce(record, f, r) ==
  IF record.not_esm THEN <<>>
  ELSE IF ~IsComponentExtension(record.extension) THEN <<>>
  ELSE StarDiagnostics(record.star_export_entries, record.requested_modules)
       \o ExportDiagnostics(f, r)

\* The step-by-step run ends with what the function computes.
RunOnceAgrees == pc = "done" => diagnostics = RunOnce(module_record, file, rule)

----------------------------------------------------------------------------
(* run_once on several files at once                                       *)

NumWorkers == 2
Workers == 1..NumWorkers

\* The files the workers are given: star exports reported twice each, a
\* type-only star export, star exports the loop passes over, a file that is
\* not a module, and a star export beside an import.
WorkerFiles ==
  {<<StarExport("a", FALSE), StarExport("a", FALSE)>>,
   <<StarExport("a", TRUE), ReExport("a")>>,
   <<StarExportNoRequest, StarExportNoEntry("a")>>,
   <<LocalConst>>,
   <<Import("a"), StarExport("b", FALSE)>>}

WorkerExtensions == {"tsx", "ts"}

\* The linter hands each run of run_once the LintContext of the file it is
\* run on.  Were there one context for all, every report would land in it.
OneContext(w) == 1

ContextOf(w) == w

InitWorkers ==
  /\ workers \in [Workers -> {[file |-> f, module_record |-> ModuleRecord(f, ext),
                               pc |-> "run_once", star_index |-> 0,
                               requested_index |-> 0] :
                                f \in WorkerFiles, ext \in WorkerExtensions}]
  /\ contexts = [w \in Workers |-> <<>>]
  /\ stdout = <<>>
  /\ pc = "workers"
  /\ file = <<>>
  /\ rule = [allow_constant_export |-> FALSE, allow_export_names |-> {}]
  /\ module_record = ModuleRecord(<<>>, NoExtension)
  /\ star_index = 0
  /\ requested_index = 0
  /\ diagnostics = <<>>
  /\ run = 1
  /\ previous = <<>>
  /\ InitNoName
  /\ InitNoAst

\* What a step of a worker leaves alone.
single == <<input, pc, star_index, requested_index, diagnostics, runs,
            name_vars, undefined_vars>>

WorkerStarExports(w) == workers[w].module_record.star_export_entries

WorkerStarExport(w) == WorkerStarExports(w)[workers[w].star_index]

WorkerRequested(w) ==
  workers[w].module_record.requested_modules[WorkerStarExport(w).module_request]

\* if module_record.not_esm { return; }
WorkerGateNotEsm ==
  \E w \in Workers :
    /\ workers[w].pc = "run_once"
    /\ workers[w].module_record.not_esm
    /\ workers' = [workers EXCEPT ![w].pc = "done"]
    /\ UNCHANGED <<single, contexts, stdout>>

WorkerGateEsm ==
  \E w \in Workers :
    /\ workers[w].pc = "run_once"
    /\ ~workers[w].module_record.not_esm
    /\ workers' = [workers EXCEPT ![w].pc = "extension"]
    /\ UNCHANGED <<single, contexts, stdout>>

\* match module_record.resolved_absolute_path.extension() { .. return .. }
WorkerGateExtensionReject ==
  \E w \in Workers :
    /\ workers[w].pc = "extension"
    /\ ~IsComponentExtension(workers[w].module_record.extension)
    /\ workers' = [workers EXCEPT ![w].pc = "done"]
    /\ UNCHANGED <<single, contexts, stdout>>

WorkerGateExtensionAccept ==
  \E w \in Workers :
    /\ workers[w].pc = "extension"
    /\ IsComponentExtension(workers[w].module_record.extension)
    /\ workers' = [workers EXCEPT ![w].pc = "star_exports", ![w].star_index = 1]
    /\ UNCHANGED <<single, contexts, stdout>>

\* let Some(module_request) = &star_export.module_request else { continue; };
WorkerStarNoModuleRequest ==
  \E w \in Workers :
    /\ workers[w].pc = "star_exports"
    /\ workers[w].star_index <= Len(WorkerStarExports(w))
    /\ WorkerStarExport(w).module_request = NoRequest
    /\ workers' = [workers EXCEPT ![w].star_index = @ + 1]
    /\ UNCHANGED <<single, contexts, stdout>>

\* module_record.requested_modules.get(module_request.name()) is None
WorkerStarRequestedModulesMissing ==
  \E w \in Workers :
    /\ workers[w].pc = "star_exports"
    /\ workers[w].star_index <= Len(WorkerStarExports(w))
    /\ WorkerStarExport(w).module_request # NoRequest
    /\ WorkerStarExport(w).module_request \notin DOMAIN workers[w].module_record.requested_modules
    /\ workers' = [workers EXCEPT ![w].star_index = @ + 1]
    /\ UNCHANGED <<single, contexts, stdout>>

\* if let Some(requested_modules) = requested_modules { for requested_module in .. }
WorkerStarRequestedModulesFound ==
  \E w \in Workers :
    /\ workers[w].pc = "star_exports"
    /\ workers[w].star_index <= Len(WorkerStarExports(w))
    /\ WorkerStarExport(w).module_request \in DOMAIN workers[w].module_record.requested_modules
    /\ workers' = [workers EXCEPT ![w].pc = "requested_modules", ![w].requested_index = 1]
    /\ UNCHANGED <<single, contexts, stdout>>

\* println!("should fail"); ctx.diagnostic(report_export_all(star_export.span));
\* Standard output is the one of the process: the workers' lines mix in it.
WorkerRequestedReport ==
  \E w \in Workers :
    /\ workers[w].pc = "requested_modules"
    /\ workers[w].requested_index <= Len(WorkerRequested(w))
    /\ ShouldReport(WorkerRequested(w)[workers[w].requested_index])
    /\ stdout' = Append(stdout, "should fail")
    /\ contexts' = [contexts EXCEPT ![ContextOf(w)] =
                      Append(@, report_export_all(WorkerStarExport(w).span))]
    /\ workers' = [workers EXCEPT ![w].requested_index = @ + 1]
    /\ UNCHANGED single

WorkerRequestedSkip ==
  \E w \in Workers :
    /\ workers[w].pc = "requested_modules"
    /\ workers[w].requested_index <= Len(WorkerRequested(w))
    /\ ~ShouldReport(WorkerRequested(w)[workers[w].requested_index])
    /\ workers' = [workers EXCEPT ![w].requested_index = @ + 1]
    /\ UNCHANGED <<single, contexts, stdout>>

WorkerRequestedEnd ==
  \E w \in Workers :
    /\ workers[w].pc = "requested_modules"
    /\ workers[w].requested_index > Len(WorkerRequested(w))
    /\ workers' = [workers EXCEPT ![w].pc = "star_exports", ![w].star_index = @ + 1,
                                  ![w].requested_index = 0]
    /\ UNCHANGED <<single, contexts, stdout>>

\* The loop is over; the rest of run_once reports nothing and returns.
WorkerStarExportsEnd ==
  \E w \in Workers :
    /\ workers[w].pc = "star_exports"
    /\ workers[w].star_index > Len(WorkerStarExports(w))
    /\ contexts' = [contexts EXCEPT ![ContextOf(w)] =
                      @ \o ExportDiagnostics(workers[w].file, rule)]
    /\ workers' = [workers EXCEPT ![w].pc = "done"]
    /\ UNCHANGED <<single, stdout>>

NextWorkers ==
  \/ WorkerGateNotEsm
  \/ WorkerGateEsm
  \/ WorkerGateExtensionReject
  \/ WorkerGateExtensionAccept
  \/ WorkerStarNoModuleRequest
  \/ WorkerStarRequestedModulesMissing
  \/ WorkerStarRequestedModulesFound
  \/ WorkerRequestedReport
  \/ WorkerRequestedSkip
  \/ WorkerRequestedEnd
  \/ WorkerStarExportsEnd

SpecWorkers == InitWorkers /\ [][NextWorkers]_vars

----------------------------------------------------------------------------
(* The scan of a name by the two patterns                                  *)

InitNames ==
  /\ name \in Names
  /\ scan_index = 1
  /\ possible_states = {"start"}
  /\ strict_states = {"start"}
  /\ pc = "scan"
  /\ file = <<>>
  /\ rule = [allow_constant_export |-> FALSE, allow_export_names |-> {}]
  /\ module_record = ModuleRecord(<<>>, NoExtension)
  /\ star_index = 0
  /\ requested_index = 0
  /\ diagnostics = <<>>
  /\ stdout = <<>>
  /\ run = 1
  /\ previous = <<>>
  /\ InitNoAst
  /\ InitNoWorkers

\* Both patterns read the next character of the name.
ScanChar ==
  /\ pc = "scan"
  /\ scan_index <= Len(name)
  /\ possible_states' = PossibleStep(possible_states, name[scan_index])
  /\ strict_states' = StrictStep(strict_states, name[scan_index])
  /\ scan_index' = scan_index + 1
  /\ UNCHANGED <<input, runs, undefined_vars, worker_vars, name, pc, star_index, requested_index,
                 diagnostics, stdout>>

\* `$`: the end of the name is reached.
ScanEnd ==
  /\ pc = "scan"
  /\ scan_index > Len(name)
  /\ pc' = "matched"
  /\ UNCHANGED <<input, runs, undefined_vars, worker_vars, name_vars, star_index, requested_index,
                 diagnostics, stdout>>

NextNames == ScanChar \/ ScanEnd

SpecNames == InitNames /\ [][NextNames]_vars

----------------------------------------------------------------------------
(* unicorn/no_useless_undefined: NoUselessUndefined::run_once               *)

MaxStatements == 2

\* Expressions, as far as the rule tells them apart.
Identifier(n) == [kind |-> "Identifier", name |-> n]
Expression(kind) == [kind |-> kind]
NoExpression == [kind |-> "None"]

\* Statements of a function body.
ReturnStatement(argument) == [kind |-> "ReturnStatement", argument |-> argument]
ExpressionStatement(expression) ==
  [kind |-> "ExpressionStatement", expression |-> expression]

\* The nodes the rule matches on, and the others.
Function(has_body, statements, return_type) ==
  [kind |-> "Function", has_body |-> has_body, statements |-> statements,
   return_type |-> return_type]
YieldExpression(argument, delegate) ==
  [kind |-> "YieldExpression", argument |-> argument, delegate |-> delegate]
ArrowFunctionExpression(statements, return_type) ==
  [kind |-> "ArrowFunctionExpression", statements |-> statements,
   return_type |-> return_type]
VariableDeclarator(kind, init) == [kind |-> kind, init |-> init]
VariableDeclaration(kind, declarations) ==
  [kind |-> "VariableDeclaration", declaration_kind |-> kind,
   declarations |-> declarations]
AssignmentPattern(right) == [kind |-> "AssignmentPattern", right |-> right]
StaticMemberExpression(property) ==
  [kind |-> "StaticMemberExpression", name |-> property]
CallExpression(callee, optional, arguments) ==
  [kind |-> "CallExpression", callee |-> callee, optional |-> optional,
   arguments |-> arguments]
OtherNode(kind) == [kind |-> kind]

Undefined == Identifier("undefined")

\* `<kind> foo = () => undefined;`
ArrowUndefined(kind) ==
  <<VariableDeclaration(kind, <<VariableDeclarator(kind, Expression("ArrowFunctionExpression"))>>),
    OtherNode("VariableDeclarator"),
    ArrowFunctionExpression(<<ExpressionStatement(Undefined)>>, FALSE),
    OtherNode("IdentifierReference")>>

\* `let foo = (): undefined => { return undefined; };` and the same untyped
ArrowReturnUndefined(return_type) ==
  <<VariableDeclaration("let", <<VariableDeclarator("let", Expression("ArrowFunctionExpression"))>>),
    ArrowFunctionExpression(<<ReturnStatement(Undefined)>>, return_type)>>

\* `<kind> foo = <init>;`
Declare(kind, init) ==
  <<VariableDeclaration(kind, <<VariableDeclarator(kind, init)>>)>>

\* `function foo() { return <argument>; }`, with or without a return type
FunctionReturning(argument, return_type) ==
  <<Function(TRUE, <<ReturnStatement(argument)>>, return_type),
    OtherNode("ReturnStatement")>>

\* `declare function foo(): void;`
FunctionNoBody == <<Function(FALSE, <<>>, TRUE)>>

\* `function* foo() { yield <argument>; }`  /  `yield* <argument>`
Yielding(argument, delegate) ==
  <<Function(TRUE, <<ExpressionStatement(Expression("YieldExpression"))>>, FALSE),
    YieldExpression(argument, delegate)>>

\* `let { foo = <right> } = {};`
Destructure(right) ==
  <<VariableDeclaration("let", <<VariableDeclarator("let", Expression("ObjectExpression"))>>),
    AssignmentPattern(right)>>

\* `<callee>(<arguments>);`
Call(callee, arguments) ==
  <<OtherNode("ExpressionStatement"), CallExpression(callee, FALSE, arguments)>>

\* The statements the programs are made of, each as its nodes in the order
\* the traversal meets them: a node before the nodes inside it.
Snippets ==
  {ArrowUndefined("const"), ArrowUndefined("let"),
   ArrowReturnUndefined(TRUE), ArrowReturnUndefined(FALSE),
   Declare("let", Undefined), Declare("const", Undefined),
   Declare("var", Identifier("bar")),
   FunctionReturning(Undefined, FALSE), FunctionReturning(Undefined, TRUE),
   FunctionReturning(Identifier("bar"), FALSE),
   FunctionReturning(NoExpression, FALSE),
   FunctionNoBody,
   Yielding(Undefined, FALSE), Yielding(Undefined, TRUE),
   Yielding(Identifier("bar"), FALSE), Yielding(NoExpression, FALSE),
   Destructure(Undefined), Destructure(Expression("NumericLiteral")),
   Call(Identifier("foo"), <<Undefined>>),
   Call(Identifier("foo"), <<Undefined, Identifier("bar")>>),
   Call(Identifier("foo"), <<Undefined, Expression("NumericLiteral")>>),
   Call(Identifier("foo"), <<Identifier("bar"), Undefined, Undefined>>),
   Call(Identifier("foo"), <<>>),
   Call(Identifier("setState"), <<Undefined>>),
   Call(StaticMemberExpression("push"), <<Undefined>>),
   Call(StaticMemberExpression("bind"), <<Identifier("bar"), Undefined>>),
   Call(StaticMemberExpression("bind"), <<Undefined>>)}

RECURSIVE Flatten(_)
Flatten(statements) ==
  IF statements = <<>> THEN <<>>
  ELSE Head(statements) \o Flatten(Tail(statements))

\* ctx.nodes() of a program: the Program node, then the nodes of its statements.
Nodes(statements) == <<OtherNode("Program")>> \o Flatten(statements)

Programs == UNION {[1..n -> Snippets] : n \in 0..MaxStatements}

\* The values of the rule.
Options == [check_arguments : BOOLEAN, check_arrow_function_body : BOOLEAN]

COMPARE_FUNCTION_NAMES ==
  {"is", "equal", "notEqual", "strictEqual", "notStrictEqual", "propertyVal",
   "notPropertyVal", "not", "include", "property", "toBe",
   "toHaveBeenCalledWith", "toContain", "toContainEqual", "toEqual", "same",
   "notSame", "strictSame", "strictNotSame"}

\* ^set[A-Z]
SET_REG(text) ==
  /\ Len(text) >= 4
  /\ SubSeq(text, 1, 3) = <<"s", "e", "t">>
  /\ text[4] \in UpperLetters

is_function_bind_call(call_expression) ==
  /\ ~call_expression.optional
  /\ call_expression.callee.kind = "StaticMemberExpression"
  /\ call_expression.callee.name = "bind"

should_ignore(callee) ==
  /\ callee.kind \in {"Identifier", "StaticMemberExpression"}
  /\ \/ callee.name \in COMPARE_FUNCTION_NAMES
     \/ callee.name \in {"push", "unshift", "includes", "add", "has", "set",
                         "createContext", "ref'"}
     \/ SET_REG(Spelling(callee.name))

\* OxcDiagnostic::warn("Dot not use useless `undefined`.").with_label(span):
\* the span is a part of a node, from its first to its last element.
useless_undefined(node, part, first, last) ==
  [kind |-> "UselessUndefined", severity |-> "warning", node |-> node,
   part |-> part, first |-> first, last |-> last]

\* One diagnostic per place, in order.
Labelled(node, part, places) ==
  [n \in 1..Len(places) |-> useless_undefined(node, part, places[n], places[n])]

Node == ast[node_index]

\* The statements of a function body that the loop reports: a return of an
\* identifier, unless it is `undefined` in a function with a return type.
FunctionReports(function) ==
  Positions(function.statements,
            {k \in 1..Len(function.statements) :
               LET statement == function.statements[k]
               IN  /\ statement.kind = "ReturnStatement"
                   /\ statement.argument.kind = "Identifier"
                   /\ ~(statement.argument.name = "undefined" /\ function.return_type)})

\* The statements of an arrow function body that the loop reports.
ArrowReturnReports(arrow) ==
  {k \in 1..Len(arrow.statements) :
     LET statement == arrow.statements[k]
     IN  /\ statement.kind = "ReturnStatement"
         /\ statement.argument.kind = "Identifier"
         /\ statement.argument.name = "undefined"
         /\ ~arrow.return_type}

ArrowExpressionReports(arrow) ==
  {k \in 1..Len(arrow.statements) :
     LET statement == arrow.statements[k]
     IN  /\ statement.kind = "ExpressionStatement"
         /\ statement.expression.kind = "Identifier"
         /\ statement.expression.name = "undefined"}

ArrowDiagnostics(arrow, node) ==
  LET at == Positions(arrow.statements,
                      ArrowReturnReports(arrow) \cup ArrowExpressionReports(arrow))
  IN  [n \in 1..Len(at) |->
         useless_undefined(node,
                           IF at[n] \in ArrowReturnReports(arrow)
                           THEN "return_statement" ELSE "expression",
                           at[n], at[n])]

\* The declarators of a declaration that the loop reports.
DeclarationReports(variable_declaration) ==
  Positions(variable_declaration.declarations,
            {k \in 1..Len(variable_declaration.declarations) :
               LET declaration == variable_declaration.declarations[k]
               IN  /\ declaration.kind # "const"
                   /\ declaration.init.kind = "Identifier"
                   /\ declaration.init.name = "undefined"})

\* for argument in argument_nodes.iter().rev(): from argument k down to the
\* first, an identifier `undefined` is put in front of those found, any other
\* identifier ends the loop, and an argument that is no identifier is passed.
RECURSIVE undefined_arguments(_, _, _)
undefined_arguments(arguments, k, found) ==
  IF k = 0 THEN found
  ELSE IF arguments[k].kind = "Identifier"
       THEN IF arguments[k].name = "undefined"
            THEN undefined_arguments(arguments, k - 1, <<k>> \o found)
            ELSE found
       ELSE undefined_arguments(arguments, k - 1, found)

UndefinedArguments(call_expression) ==
  undefined_arguments(call_expression.arguments, Len(call_expression.arguments), <<>>)

InitUndefined ==
  /\ \E program \in Programs : ast = Nodes(program)
  /\ options \in Options
  /\ node_index = 1
  /\ pc = "nodes"
  /\ diagnostics = <<>>
  /\ stdout = <<>>
  /\ file = <<>>
  /\ rule = [allow_constant_export |-> FALSE, allow_export_names |-> {}]
  /\ module_record = ModuleRecord(<<>>, NoExtension)
  /\ star_index = 0
  /\ requested_index = 0
  /\ run = 1
  /\ previous = <<>>
  /\ InitNoName
  /\ InitNoWorkers

\* What the traversal leaves alone.
outside == <<input, star_index, requested_index, runs, name_vars, worker_vars,
             ast, options>>

\* for node in ctx.nodes().iter() { println!("{:#?}", node); match node.kind() {
AtNode(kind) ==
  /\ pc = "nodes"
  /\ node_index <= Len(ast)
  /\ Node.kind = kind
  /\ stdout' = Append(stdout, kind)

\* let Some(body) = &function.body else { continue; };
VisitFunctionNoBody ==
  /\ AtNode("Function")
  /\ ~Node.has_body
  /\ node_index' = node_index + 1
  /\ UNCHANGED <<outside, pc, diagnostics>>

VisitFunction ==
  /\ AtNode("Function")
  /\ Node.has_body
  /\ diagnostics' = diagnostics \o
       Labelled(node_index, "return_statement", FunctionReports(Node))
  /\ node_index' = node_index + 1
  /\ UNCHANGED <<outside, pc>>

\* The three early exits of the arm leave run_once.
YieldReported(yield_expression) ==
  /\ yield_expression.argument.kind = "Identifier"
  /\ yield_expression.argument.name = "undefined"
  /\ ~yield_expression.delegate

VisitYieldReturn ==
  /\ AtNode("YieldExpression")
  /\ ~YieldReported(Node)
  /\ pc' = "done"
  /\ UNCHANGED <<outside, node_index, diagnostics>>

VisitYield ==
  /\ AtNode("YieldExpression")
  /\ YieldReported(Node)
  /\ diagnostics' = Append(diagnostics, useless_undefined(node_index, "yield_expression", 1, 1))
  /\ node_index' = node_index + 1
  /\ UNCHANGED <<outside, pc>>

\* if !self.check_arrow_function_body { return; }
VisitArrowDisabled ==
  /\ AtNode("ArrowFunctionExpression")
  /\ ~options.check_arrow_function_body
  /\ pc' = "done"
  /\ UNCHANGED <<outside, node_index, diagnostics>>

VisitArrow ==
  /\ AtNode("ArrowFunctionExpression")
  /\ options.check_arrow_function_body
  /\ diagnostics' = diagnostics \o ArrowDiagnostics(Node, node_index)
  /\ node_index' = node_index + 1
  /\ UNCHANGED <<outside, pc>>

\* if variable_declaration.kind.is_const() { return; }
VisitConstDeclaration ==
  /\ AtNode("VariableDeclaration")
  /\ Node.declaration_kind = "const"
  /\ pc' = "done"
  /\ UNCHANGED <<outside, node_index, diagnostics>>

VisitVariableDeclaration ==
  /\ AtNode("VariableDeclaration")
  /\ Node.declaration_kind # "const"
  /\ diagnostics' = diagnostics \o Labelled(node_index, "init", DeclarationReports(Node))
  /\ node_index' = node_index + 1
  /\ UNCHANGED <<outside, pc>>

\* let Expression::Identifier(identifier) = &assignment_pattern.right else { return; };
VisitAssignmentPatternReturn ==
  /\ AtNode("AssignmentPattern")
  /\ Node.right.kind # "Identifier"
  /\ pc' = "done"
  /\ UNCHANGED <<outside, node_index, diagnostics>>

VisitAssignmentPattern ==
  /\ AtNode("AssignmentPattern")
  /\ Node.right.kind = "Identifier"
  /\ diagnostics' = IF Node.right.name = "undefined"
                    THEN Append(diagnostics, useless_undefined(node_index, "right", 1, 1))
                    ELSE diagnostics
  /\ node_index' = node_index + 1
  /\ UNCHANGED <<outside, pc>>

\* The call is examined as far as the report.
CallReported(call_expression) ==
  /\ options.check_arguments
  /\ ~should_ignore(call_expression.callee)
  /\ ~(is_function_bind_call(call_expression) /\ Len(call_expression.arguments) # 1)
  /\ UndefinedArguments(call_expression) # <<>>

VisitCallReturn ==
  /\ AtNode("CallExpression")
  /\ ~CallReported(Node)
  /\ pc' = "done"
  /\ UNCHANGED <<outside, node_index, diagnostics>>

VisitCall ==
  /\ AtNode("CallExpression")
  /\ CallReported(Node)
  /\ LET found == UndefinedArguments(Node)
     IN  diagnostics' = Append(diagnostics,
                               useless_undefined(node_index, "arguments",
                                                 Head(found), found[Len(found)]))
  /\ node_index' = node_index + 1
  /\ UNCHANGED <<outside, pc>>

\* _ => {}
VisitOther ==
  /\ pc = "nodes"
  /\ node_index <= Len(ast)
  /\ Node.kind \notin {"Function", "YieldExpression", "ArrowFunctionExpression",
                       "VariableDeclaration", "AssignmentPattern", "CallExpression"}
  /\ stdout' = Append(stdout, Node.kind)
  /\ node_index' = node_index + 1
  /\ UNCHANGED <<outside, pc, diagnostics>>

\* The nodes are exhausted.
NodesEnd ==
  /\ pc = "nodes"
  /\ node_index > Len(ast)
  /\ pc' = "done"
  /\ UNCHANGED <<outside, node_index, diagnostics, stdout>>

NextUndefined ==
  \/ VisitFunctionNoBody
  \/ VisitFunction
  \/ VisitYieldReturn
  \/ VisitYield
  \/ VisitArrowDisabled
  \/ VisitArrow
  \/ VisitConstDeclaration
  \/ VisitVariableDeclaration
  \/ VisitAssignmentPatternReturn
  \/ VisitAssignmentPattern
  \/ VisitCallReturn
  \/ VisitCall
  \/ VisitOther
  \/ NodesEnd

SpecUndefined == InitUndefined /\ [][NextUndefined]_vars

----------------------------------------------------------------------------
(* Vocabulary of the properties                                            *)

Done == pc = "done"

\* The file passes both gates: an ES module with extension tsx or jsx.
ApplicableFile ==
  ~module_record.not_esm /\ module_record.extension \in {"tsx", "jsx"}

AllResolved(f) == \A k \in 1..Len(f) : f[k].resolution = "resolved"

\* The number of diagnostics of a kind that carry a span.
CountAt(kind, span0) ==
  Cardinality({n \in 1..Len(diagnostics) :
                 diagnostics[n].kind = kind /\ diagnostics[n].span = span0})

StarDiagnosticsEmitted ==
  SelectSeq(diagnostics, LAMBDA d : d.kind = "StarExportUnverifiable")

NonTypeStars(f) == {k \in 1..Len(f) : IsStar(f[k]) /\ ~f[k].is_type}

\* The star exports of a file, each with its place and its type-only marker.
\* A file with its declarations in the opposite order.
Reverse(f) == [k \in 1..Len(f) |-> f[Len(f) + 1 - k]]

\* An arrow function with no return type whose body is the expression
\* `undefined`.
IsArrowUndefined(node) ==
  /\ node.kind = "ArrowFunctionExpression"
  /\ ~node.return_type
  /\ node.statements = <<ExpressionStatement(Undefined)>>

\* Some diagnostic is about node k of the tree.
ReportedAt(k) == \E n \in 1..Len(diagnostics) : diagnostics[n].node = k

\* What the arm of a node reports of it, whatever came before the node.
NodeDiagnostics(node, k) ==
  CASE node.kind = "Function" ->
         IF node.has_body
         THEN Labelled(k, "return_statement", FunctionReports(node)) ELSE <<>>
    [] node.kind = "YieldExpression" ->
         IF YieldReported(node)
         THEN <<useless_undefined(k, "yield_expression", 1, 1)>> ELSE <<>>
    [] node.kind = "ArrowFunctionExpression" ->
         IF options.check_arrow_function_body
         THEN ArrowDiagnostics(node, k) ELSE <<>>
    [] node.kind = "VariableDeclaration" ->
         IF node.declaration_kind # "const"
         THEN Labelled(k, "init", DeclarationReports(node)) ELSE <<>>
    [] node.kind = "AssignmentPattern" ->
         IF node.right.kind = "Identifier" /\ node.right.name = "undefined"
         THEN <<useless_undefined(k, "right", 1, 1)>> ELSE <<>>
    [] node.kind = "CallExpression" ->
         IF CallReported(node)
         THEN LET found == UndefinedArguments(node)
              IN  <<useless_undefined(k, "arguments", Head(found), found[Len(found)])>>
         ELSE <<>>
    [] OTHER -> <<>>

\* The places of the longest run of `undefined` identifiers that ends the
\* arguments of a call.
TrailingUndefined(arguments) ==
  {k \in 1..Len(arguments) : \A j \in k..Len(arguments) : arguments[j] = Undefined}

\* The calls the traversal has examined and that no early test sets aside.
ExaminedCalls ==
  {k \in 1..Len(ast) :
     /\ k <= node_index
     /\ ast[k].kind = "CallExpression"
     /\ ~should_ignore(ast[k].callee)
     /\ ~(is_function_bind_call(ast[k]) /\ Len(ast[k].arguments) # 1)}

StarsOf(f) == {<<k, f[k]>> : k \in {k \in 1..Len(f) : IsStar(f[k])}}

----------------------------------------------------------------------------
(* Properties                                                              *)

\* C1: in an applicable file every star export that is not type-only gets
\* exactly one star-export diagnostic, on its own span, so there are as many
\* star-export diagnostics as non-type-only star exports, also when several
\* star exports request the same module.  (Stated for the files whose star
\* exports are all resolved.)
C1_OneDiagnosticPerStarExport ==
  (Done /\ ApplicableFile /\ AllResolved(file)) =>
    /\ \A k \in NonTypeStars(file) : CountAt("StarExportUnverifiable", k) = 1
    /\ Len(StarDiagnosticsEmitted) = Cardinality(NonTypeStars(file))

\* C2: a type-only star export never gets a diagnostic, whatever else the
\* file imports or re-exports from the same module.  (Stated for the files
\* whose star exports are all resolved.)
C2_TypeOnlyStarIgnored ==
  AllResolved(file) =>
    \A k \in 1..Len(file) :
      (IsStar(file[k]) /\ file[k].is_type) =>
        \A n \in 1..Len(diagnostics) : diagnostics[n].span # k

\* C3: the star-export diagnostics depend only on the star exports: any other
\* applicable file with the same star exports at the same places gets the
\* same star-export diagnostics.  (Stated for the files whose star exports
\* are all resolved.)
C3_StarDiagnosticsDependOnStarsOnly ==
  (Done /\ ApplicableFile /\ AllResolved(file)) =>
    \A g \in Files :
      LET other == ModuleRecord(g, module_record.extension)
      IN  (StarsOf(g) = StarsOf(file) /\ ~other.not_esm) =>
            SelectSeq(RunOnce(other, g, rule),
                      LAMBDA d : d.kind = "StarExportUnverifiable")
              = StarDiagnosticsEmitted

\* C4: in an applicable file a star export that cannot be resolved (no module
\* request, or no requested-module entry under its request) still gets the
\* star-export diagnostic, and the loop goes on to the remaining star exports.
C4_UnresolvedStarStillReported ==
  (Done /\ ApplicableFile) =>
    /\ star_index > Len(StarExports)
    /\ \A n \in 1..Len(StarExports) :
         (\/ StarExports[n].module_request = NoRequest
          \/ StarExports[n].module_request \notin DOMAIN module_record.requested_modules)
           => CountAt("StarExportUnverifiable", StarExports[n].span) >= 1

\* C5: a file that is not an ES module, or whose extension is absent or not
\* tsx / jsx, gets no diagnostic at any point of the run, whatever it exports.
C5_GateSilent ==
  (module_record.not_esm \/ module_record.extension \notin {"tsx", "jsx"}) =>
    diagnostics = <<>>

C5_Witness ==
  /\ Done
  /\ module_record.extension = "ts"
  /\ NonTypeStars(file) # {}
  /\ AllResolved(file)
  /\ diagnostics = <<>>

\* C6: an applicable file that exports a TS enum beside a component export
\* gets a MixedExports diagnostic on the enum export.
C6_EnumBesideComponentReported ==
  (Done /\ ApplicableFile) =>
    \A k \in 1..Len(file) :
      (IsEnumExport(file[k]) /\ \E j \in 1..Len(file) : IsComponentExport(file[j]))
        => CountAt("MixedExports", k) >= 1

\* C7: an anonymous inline default export (export default () => {}) in an
\* applicable file gets exactly one AnonymousDefaultExport diagnostic and no
\* MixedExports diagnostic.
C7_AnonymousDefaultReported ==
  (Done /\ ApplicableFile) =>
    \A k \in 1..Len(file) :
      file[k] = AnonymousDefault =>
        /\ CountAt("AnonymousDefaultExport", k) = 1
        /\ CountAt("MixedExports", k) = 0

\* C8: for an applicable file made of constant exports (string literal,
\* template literal or binary expression initializer) and component exports,
\* at least one of each: with allow_constant_export the file gets no
\* diagnostic, without it every constant export gets a MixedExports diagnostic.
C8_ConstantExportFollowsOption ==
  (/\ Done /\ ApplicableFile
   /\ \A k \in 1..Len(file) : IsConstantExport(file[k]) \/ IsComponentExport(file[k])
   /\ \E k \in 1..Len(file) : IsConstantExport(file[k])
   /\ \E k \in 1..Len(file) : IsComponentExport(file[k])) =>
    IF rule.allow_constant_export
    THEN diagnostics = <<>>
    ELSE \A k \in 1..Len(file) :
           IsConstantExport(file[k]) => CountAt("MixedExports", k) >= 1

C16_PossibleComponentPattern ==
  /\ pc = "matched" =>
       (PossibleAccepts(possible_states) <=>
          /\ Len(name) >= 1
          /\ name[1] \in UpperLetters
          /\ \A k \in 2..Len(name) : name[k] \in AlphaNumeric)
  /\ (pc = "matched" /\ name \in {<<"C", "M", "S">>, <<"F", "o", "o", "2">>})
       => PossibleAccepts(possible_states)
  /\ (pc = "matched" /\ name \in {<<"A", "P", "I", "_", "U", "R", "L">>, <<"f", "o", "o">>, <<>>})
       => ~PossibleAccepts(possible_states)

C16_Witness ==
  /\ pc = "matched"
  /\ name = <<"C", "Z", "2">>
  /\ PossibleAccepts(possible_states)

\* C17: the strict pattern matches a name exactly when the loose pattern
\* matches it and a lower-case letter follows its first character; so the
\* strict pattern implies the loose one, and CMS passes the loose pattern only.
C17_StrictPattern ==
  /\ pc = "matched" =>
       (StrictAccepts(strict_states) <=>
          /\ PossibleAccepts(possible_states)
          /\ \E k \in 2..Len(name) : name[k] \in LowerLetters)
  /\ pc = "matched" => (StrictAccepts(strict_states) => PossibleAccepts(possible_states))
  /\ (pc = "matched" /\ name = <<"C", "M", "S">>)
       => PossibleAccepts(possible_states) /\ ~StrictAccepts(strict_states)

C17_Witness ==
  /\ pc = "matched"
  /\ name = <<"C", "2", "o">>
  /\ StrictAccepts(strict_states)

C12_NoExportsReported ==
  (Done /\ ApplicableFile /\ \A k \in 1..Len(file) : ~IsExport(file[k])) =>
    \E n \in 1..Len(diagnostics) : diagnostics[n].kind = "NoExportsInFile"

\* C18: in an applicable file without star exports where a component export
\* sits beside a non-component export, every non-component export gets
\* exactly one MixedExports diagnostic and no component or exempted export
\* gets any diagnostic.
C18_MixedExportsReported ==
  (/\ Done /\ ApplicableFile
   /\ \A k \in 1..Len(file) :
        file[k].kind \in {"ExportNamedDeclaration", "ExportDefaultDeclaration"}
   /\ \E k \in 1..Len(file) : Classification(file[k], rule) = "Component"
   /\ \E k \in 1..Len(file) : Classification(file[k], rule) = "NonComponent") =>
    \A k \in 1..Len(file) :
      IF Classification(file[k], rule) = "NonComponent"
      THEN Cardinality({n \in 1..Len(diagnostics) : diagnostics[n].span = k}) = 1
           /\ CountAt("MixedExports", k) + CountAt("AnonymousDefaultExport", k) = 1
      ELSE \A n \in 1..Len(diagnostics) : diagnostics[n].span # k

\* C19: beside a component export in an applicable file, a callable export
\* whose name passes the loose pattern is a component and gets no diagnostic,
\* strict pattern or not (export const CMS = () => {}), while an export that
\* is not callable and whose name fails the strict pattern is a non-component
\* and gets a MixedExports diagnostic.
C19_NameClassification ==
  (/\ Done /\ ApplicableFile
   /\ ~rule.allow_constant_export /\ rule.allow_export_names = {}
   /\ \A k \in 1..Len(file) : file[k].kind = "ExportNamedDeclaration"
   /\ \E k \in 1..Len(file) : IsComponentExport(file[k])) =>
    \A k \in 1..Len(file) :
      /\ (IsCallableExport(file[k]) /\ POSSIBLE_REACT_EXPORT_RE(Spelling(file[k].name)))
           => \A n \in 1..Len(diagnostics) : diagnostics[n].span # k
      /\ (IsConstantExport(file[k]) /\ ~STRICT_REACT_EXPORT_RE(Spelling(file[k].name)))
           => CountAt("MixedExports", k) >= 1

C15_ArrowUndefinedReported ==
  (pc = "done" /\ options = DefaultOptions /\ ast # <<>>) =>
    \A k \in 1..Len(ast) : IsArrowUndefined(ast[k]) => ReportedAt(k)

\* C21: run_once writes nothing to standard output on any path, and the
\* module record stays the one derived from the file.
C21_NoOutput ==
  /\ stdout = <<>>
  /\ module_record = ModuleRecord(file, module_record.extension)

C23_EveryNodeExamined ==
  (pc = "done" /\ ast # <<>>) =>
    /\ node_index >= Len(ast)
    /\ \A k \in 1..Len(ast) : NodeDiagnostics(ast[k], k) # <<>> => ReportedAt(k)

\* C24: a diagnostic on a return statement of a function body is on a
\* `return undefined;` of a function with no return type: no other identifier
\* returned is reported, and nothing is in a function with a return type.
C24_OnlyUndefinedReturnsReported ==
  ast # <<>> =>
    \A n \in 1..Len(diagnostics) :
      LET function == ast[diagnostics[n].node]
      IN  function.kind = "Function" =>
            /\ function.statements[diagnostics[n].first].argument = Undefined
            /\ ~function.return_type

\* C25: with check_arguments on, an examined call that is neither ignored
\* nor a mismatched bind is reported exactly when its last argument is the
\* identifier `undefined`, and the report spans the trailing run of
\* `undefined` arguments, from its first to its last.
C25_TrailingUndefinedArguments ==
  (pc = "done" /\ options.check_arguments) =>
    \A k \in ExaminedCalls :
      LET trailing == TrailingUndefined(ast[k].arguments)
      IN  /\ ReportedAt(k) <=> trailing # {}
          /\ \A n \in 1..Len(diagnostics) :
               diagnostics[n].node = k =>
                 /\ \A j \in trailing : diagnostics[n].first <= j
                 /\ diagnostics[n].first \in trailing
                 /\ diagnostics[n].last = Len(ast[k].arguments)

=============================================================================
